---------------------------- MODULE Spec2Model ----------------------------
(***************************************************************************)
(* Model of the interactive transcription front end of VoicetoText.py:     *)
(* the Tk main thread (start_transcription, cancel_transcription), the    *)
(* worker threads running process_transcription (with transcribe_audio    *)
(* and batch_transcribe inlined as the worker's steps) and the progress    *)
(* threads running simulate_progress.                                      *)
(*                                                                         *)
(* All threads share self.processing, self.progress_var and                *)
(* self.status_var without any lock.  A step of the model is one access    *)
(* to that shared state together with the thread-local statements around   *)
(* it.  Variables marked "history" record what a thread has done; no       *)
(* action reads them.                                                      *)
(*                                                                         *)
(* Progress values are Python floats, and the increments 0.3, 0.1 and 0.05  *)
(* are no binary fractions: the floats are modelled bit for bit.           *)
(*                                                                         *)
(* Beside it stand the command-line path of the same file (main and the    *)
(* module-level transcribe_audio and batch_transcribe), format_timestamp   *)
(* as a function of one segment time, and the /transcribe route of app.py. *)
(* Each has its own specification over its own variables; the variables of *)
(* the other parts stay at their initial values.                           *)
(***************************************************************************)
EXTENDS Integers, FiniteSets, Sequences, TLC

\* ------------------------------------------------------------- bounds
\* How many start_transcription calls are accepted in a run of the model.
MaxJobs == 2
\* The largest number of eligible audio files os.listdir yields.
MaxFiles == 2
\* How many iterations of its loop one simulate_progress thread is followed
\* for, when several jobs and the user's clicks are interleaved with it.
MaxTicks == 1
\* The same when one job runs undisturbed: more than the loop ever makes.
MaxRunTicks == 800

\* ---------------------------------------------------- program constants
\* simulate_progress: the cap of the loop and the thresholds of the
\* increments.
StepCap == 95
FastBelow == 20
MediumBelow == 50
SlowBelow == 80
\* process_transcription: self.progress_var.set(100).
FullProgress == 100

\* ------------------------------------------------------- Python floats
\* format_timestamp and simulate_progress compute with Python floats (IEEE
\* 754 binary64, round to nearest, ties to even).  A float's magnitude is
\* kept as its integer part and its fraction, the fraction as Limbs digits
\* to the base 2^LimbBits, most significant first; every operation works
\* out the exact result by long arithmetic on the digits and then rounds
\* it to 53 significant bits.

\* The significand of a binary64 float.
SignificandBits == 53
LimbBits == 16
Limbs == 4
Base == 2^LimbBits
\* How many bits of a fraction are kept: enough for 53 significant bits of
\* every fraction of at least 2^-11 (a thousandth is more).
FracBits == Limbs * LimbBits

RECURSIVE BitLength(_)
\* How many binary digits the integer n has.
BitLength(n) == IF n = 0 THEN 0 ELSE 1 + BitLength(n \div 2)

\* How many zero bits the fraction begins with.
LeadingZeros(frac) ==
    LET nonzero == {k \in 1..Limbs : frac[k] # 0}
        first == CHOOSE k \in nonzero : \A j \in nonzero : k <= j
    IN  IF nonzero = {} THEN FracBits
        ELSE LimbBits * (first - 1) + (LimbBits - BitLength(frac[first]))

RECURSIVE Expand(_, _, _)
\* The first n digits of the fraction r / d, 0 <= r < d.
Expand(r, d, n) ==
    IF n = 0 THEN <<>>
    ELSE <<(r * Base) \div d>> \o Expand((r * Base) % d, d, n - 1)

RECURSIVE Remainder(_, _, _)
\* What is left of r / d after its first n digits (times d * Base^n).
Remainder(r, d, n) == IF n = 0 THEN r ELSE Remainder((r * Base) % d, d, n - 1)

\* How many bits of the fraction a float of this magnitude holds.
Precision(i, frac) ==
    IF i > 0 THEN SignificandBits - BitLength(i)
    ELSE SignificandBits + LeadingZeros(frac)

\* i + 0.a + 0.b, exactly.
ExactSum(i, a, b) ==
    LET c[k \in 0..Limbs] ==
            IF k = Limbs THEN 0 ELSE (a[k + 1] + b[k + 1] + c[k + 1]) \div Base
    IN  [int |-> i + c[0],
         frac |-> [k \in 1..Limbs |-> (a[k] + b[k] + c[k]) % Base]]

\* The float nearest to an exact value (ties to even); sticky tells that
\* the exact value has further non-zero digits behind those given.  Digit
\* j holds the first bit that is dropped, u is one unit of the last bit
\* kept, counted in units of digit j.
Round(i, frac, sticky) ==
    LET p == Precision(i, frac)
        j == (p \div LimbBits) + 1
        u == 2^(LimbBits * j - p)
        hi == frac[j] \div u
        lo == frac[j] % u
        rest == sticky \/ \E k \in (j + 1)..Limbs : frac[k] # 0
        odd == IF u < Base THEN hi % 2 = 1
               ELSE IF j = 1 THEN i % 2 = 1
               ELSE frac[j - 1] % 2 = 1
        cut == [k \in 1..Limbs |->
                  IF k < j THEN frac[k] ELSE IF k = j THEN hi * u ELSE 0]
    IN  IF p >= FracBits THEN [int |-> i, frac |-> frac]
        ELSE IF 2 * lo > u \/ (2 * lo = u /\ (rest \/ odd))
        THEN ExactSum(i, cut, [k \in 1..Limbs |-> IF k = j THEN u ELSE 0])
        ELSE [int |-> i, frac |-> cut]

\* The float that the decimal q + r/d denotes (a literal such as 0.3, or a
\* time in thousandths of a second).
Float(q, r, d) ==
    Round(q, Expand(r, d, Limbs), Remainder(r, d, Limbs) # 0)

IsZero(x) == x.int = 0 /\ \A k \in 1..Limbs : x.frac[k] = 0

\* x + y
FloatAdd(x, y) ==
    LET sum == ExactSum(x.int + y.int, x.frac, y.frac)
    IN  Round(sum.int, sum.frac, FALSE)

\* x * m, m an integer
FloatTimes(x, m) ==
    LET c[k \in 0..Limbs] ==
            IF k = Limbs THEN 0 ELSE (x.frac[k + 1] * m + c[k + 1]) \div Base
    IN  Round(x.int * m + c[0],
              [k \in 1..Limbs |-> (x.frac[k] * m + c[k]) % Base], FALSE)

\* m - x, m an integer above x
IntMinus(m, x) ==
    IF \A k \in 1..Limbs : x.frac[k] = 0
    THEN [int |-> m - x.int, frac |-> x.frac]
    ELSE LET diff == ExactSum(m - x.int - 1,
                              [k \in 1..Limbs |-> Base - 1 - x.frac[k]],
                              [k \in 1..Limbs |-> IF k = Limbs THEN 1 ELSE 0])
         IN  Round(diff.int, diff.frac, FALSE)

\* The float of the integer n.
FloatOf(n) == [int |-> n, frac |-> [k \in 1..Limbs |-> 0]]

\* x < y
FloatLess(x, y) ==
    \/ x.int < y.int
    \/ /\ x.int = y.int
       /\ \E k \in 1..Limbs :
            /\ x.frac[k] < y.frac[k]
            /\ \A j \in 1..(k - 1) : x.frac[j] = y.frac[j]

\* simulate_progress: the increments 0.5, 0.3, 0.1 and 0.05.
FastIncrement == Float(0, 5, 10)
MediumIncrement == Float(0, 3, 10)
SlowIncrement == Float(0, 1, 10)
LastIncrement == Float(0, 5, 100)

Workers == 1..MaxJobs

\* What the entry bound to self.input_path can hold when it is read:
\* nothing, a path that does not exist, an existing file, an existing
\* directory.  The user may retype it at any moment, so each
\* self.input_path.get() is an input of the step that makes it.
PathKinds == {"", "missing", "file", "dir"}

StatusReady == "Ready"
StatusStarting == "Starting transcription..."
StatusFile == "Transcribing file"
StatusCompleted == "Transcription completed!"
StatusCancelled == "Cancelled by user"
StatusError == "Error occurred"

VARIABLES
    processing,     \* self.processing
    progress_var,   \* self.progress_var, a float
    status_var,     \* self.status_var
    mainpc,         \* the main thread: "idle", or its position inside a handler
    nworkers,       \* how many worker threads start_transcription has created
    wpc,            \* each worker's position in process_transcription
    wpath,          \* each worker's local input_path
    nfiles,         \* batch_transcribe: len(audio_files)
    idx,            \* batch_transcribe: how many files the loop has finished
    output_files,   \* how many output files the worker has written
    errors,         \* batch_transcribe: how many "Error processing" lines it logged
    raised,         \* history: an exception reached process_transcription's handler
    outcome,        \* history: what the worker reported ("completed", "error")
    snapped,        \* history: the worker executed progress_var.set(100)
    cancelAt,       \* history: where the worker stood when a cancel took effect
    simpc,          \* each progress thread's position in simulate_progress
    step,           \* simulate_progress: step, a float
    ticks,          \* how many loop iterations the progress thread has made
    cli_pc,         \* main() in command-line mode: its position ("none": not run)
    argv,           \* main: args (input, device, format)
    gpu_available,  \* torch.cuda.is_available()
    device,         \* main: device
    cli_nfiles,     \* batch_transcribe (module level): len(audio_files)
    cli_idx,        \* batch_transcribe (module level): files the loop has finished
    result,         \* transcribe_audio (module level): result
    out_file,       \* the lines of the output file last written
    cli_outputs,    \* batch_transcribe (module level): len(output_files)
    stdout,         \* what the command-line process has printed
    exit_status,    \* the exit status of the process, -1 while it runs
    ts_pc,          \* a call of format_timestamp: "call", "returned" ("none": no call)
    ts_time,        \* its argument seconds, in thousandths of a second
    ts_format,      \* its argument output_format
    ts_result,      \* what it returned
    route_pc,       \* a POST /transcribe request of app.py: its position ("none": no request)
    scratch,        \* whether temp/<filename> exists
    http_status     \* the status of the response, 0 before

shared == <<processing, progress_var, status_var>>
mainv == <<mainpc, nworkers>>
workerv == <<wpc, wpath, nfiles, idx, output_files, errors, raised, outcome, snapped>>
simv == <<simpc, step, ticks>>
cliv == <<cli_pc, argv, gpu_available, device, cli_nfiles, cli_idx, result,
          out_file, cli_outputs, stdout, exit_status>>
\* The interactive front end, and what it never touches.
gui == <<shared, mainv, workerv, cancelAt, simv>>
tsv == <<ts_pc, ts_time, ts_format, ts_result>>
routev == <<route_pc, scratch, http_status>>
standalone == <<cliv, tsv, routev>>
notcli == <<gui, tsv, routev>>
notts == <<gui, cliv, routev>>
notroute == <<gui, cliv, tsv>>
vars == <<gui, standalone>>

Alive(w) == wpc[w] \notin {"none", "done"}

\* Where a worker stands, as far as cancellation goes: between two files of
\* a batch (one done at least, the next one not begun, about to test the
\* flag), inside model.transcribe, or elsewhere.
Standing(w) ==
    CASE wpc[w] = "b_check" /\ 1 <= idx[w] /\ idx[w] < nfiles[w] -> "between_files"
      [] wpc[w] \in {"s_infer", "b_infer"} -> "in_inference"
      [] OTHER -> "elsewhere"

\* The state after WhisperTranscriptionApp.__init__.
InitGui ==
    /\ processing = FALSE
    /\ progress_var = FloatOf(0)
    /\ status_var = StatusReady
    /\ mainpc = "idle"
    /\ nworkers = 0
    /\ wpc = [w \in Workers |-> "none"]
    /\ wpath = [w \in Workers |-> ""]
    /\ nfiles = [w \in Workers |-> 0]
    /\ idx = [w \in Workers |-> 0]
    /\ output_files = [w \in Workers |-> 0]
    /\ errors = [w \in Workers |-> 0]
    /\ raised = [w \in Workers |-> FALSE]
    /\ outcome = [w \in Workers |-> "none"]
    /\ snapped = [w \in Workers |-> FALSE]
    /\ cancelAt = [w \in Workers |-> "none"]
    /\ simpc = [w \in Workers |-> "none"]
    /\ step = [w \in Workers |-> FloatOf(0)]
    /\ ticks = [w \in Workers |-> 0]

\* The command-line path of main() is not taken.
NoCli ==
    /\ cli_pc = "none"
    /\ argv = [input |-> "", device |-> "None", format |-> "txt"]
    /\ gpu_available = FALSE
    /\ device = "None"
    /\ cli_nfiles = 0
    /\ cli_idx = 0
    /\ result = [text |-> "", segments |-> <<>>]
    /\ out_file = <<>>
    /\ cli_outputs = 0
    /\ stdout = {}
    /\ exit_status = -1

\* No call of format_timestamp is looked at on its own.
NoTs ==
    /\ ts_pc = "none"
    /\ ts_time = 0
    /\ ts_format = "srt"
    /\ ts_result = ""

\* app.py is not serving a request.
NoRoute ==
    /\ route_pc = "none"
    /\ scratch = FALSE
    /\ http_status = 0

\* main() without --input (or with --gui): the window is built and the
\* event loop runs.
Init == InitGui /\ NoCli /\ NoTs /\ NoRoute

\* ------------------------------------------------------- the main thread

\* start_transcription without its first test: a start is accepted while
\* the flag is set.
start_transcription_unguarded(input_path) ==
    /\ mainpc = "idle"
    /\ IF input_path \in {"", "missing"}
       THEN /\ mainpc' = "error_no_path"
            /\ UNCHANGED <<processing, nworkers, wpc>>
       ELSE /\ nworkers < MaxJobs
            /\ processing' = TRUE
            /\ nworkers' = nworkers + 1
            /\ wpc' = [wpc EXCEPT ![nworkers + 1] = "w_start"]
            /\ UNCHANGED mainpc
    /\ UNCHANGED <<progress_var, status_var>>
    /\ UNCHANGED <<wpath, nfiles, idx, output_files, errors, raised, outcome, snapped>>
    /\ UNCHANGED <<cancelAt, simv>>
    /\ UNCHANGED standalone

\* start_transcription without its tests of the path: whatever the entry
\* holds is accepted when no job runs.
start_transcription_unchecked(input_path) ==
    /\ mainpc = "idle"
    /\ IF processing
       THEN /\ mainpc' = "warn_running"
            /\ UNCHANGED <<processing, nworkers, wpc>>
       ELSE /\ nworkers < MaxJobs
            /\ processing' = TRUE
            /\ nworkers' = nworkers + 1
            /\ wpc' = [wpc EXCEPT ![nworkers + 1] = "w_start"]
            /\ UNCHANGED mainpc
    /\ UNCHANGED <<progress_var, status_var>>
    /\ UNCHANGED <<wpath, nfiles, idx, output_files, errors, raised, outcome, snapped>>
    /\ UNCHANGED <<cancelAt, simv>>
    /\ UNCHANGED standalone

\* start_transcription: each early return opens a modal message box
\* (showwarning, showerror), which holds the main thread until it is
\* dismissed; else the flag is set and a worker thread is created.
start_transcription(input_path) ==
    /\ mainpc = "idle"
    /\ IF processing
       THEN /\ mainpc' = "warn_running"
            /\ UNCHANGED <<processing, nworkers, wpc>>
       ELSE IF input_path = ""
       THEN /\ mainpc' = "error_no_path"
            /\ UNCHANGED <<processing, nworkers, wpc>>
       ELSE IF input_path = "missing"
       THEN /\ mainpc' = "error_missing_path"
            /\ UNCHANGED <<processing, nworkers, wpc>>
       ELSE /\ nworkers < MaxJobs
            /\ processing' = TRUE
            /\ nworkers' = nworkers + 1
            /\ wpc' = [wpc EXCEPT ![nworkers + 1] = "w_start"]
            /\ UNCHANGED mainpc
    /\ UNCHANGED <<progress_var, status_var>>
    /\ UNCHANGED <<wpath, nfiles, idx, output_files, errors, raised, outcome, snapped>>
    /\ UNCHANGED <<cancelAt, simv>>
    /\ UNCHANGED standalone

\* cancel_transcription without its test: the status is overwritten
\* whatever the flag holds.
cancel_transcription_untested ==
    /\ mainpc = "idle"
    /\ processing' = FALSE
    /\ status_var' = StatusCancelled
    /\ mainpc' = "cancel_return"
    /\ UNCHANGED <<progress_var, nworkers, workerv, cancelAt, simv>>
    /\ UNCHANGED standalone

\* cancel_transcription, the test and the assignment to the flag; with the
\* flag clear the handler falls through to its end.
cancel_transcription ==
    /\ mainpc = "idle"
    /\ IF processing
       THEN /\ processing' = FALSE
            /\ mainpc' = "cancel_status"
            /\ cancelAt' = [w \in Workers |->
                              IF Alive(w) /\ cancelAt[w] = "none"
                              THEN Standing(w) ELSE cancelAt[w]]
       ELSE /\ mainpc' = "cancel_return"
            /\ UNCHANGED <<processing, cancelAt>>
    /\ UNCHANGED <<progress_var, status_var, nworkers>>
    /\ UNCHANGED <<workerv, simv>>
    /\ UNCHANGED standalone

\* cancel_transcription, self.status_var.set("Cancelled by user").
cancel_status ==
    /\ mainpc = "cancel_status"
    /\ status_var' = StatusCancelled
    /\ mainpc' = "idle"
    /\ UNCHANGED <<processing, progress_var, nworkers>>
    /\ UNCHANGED <<workerv, cancelAt, simv>>
    /\ UNCHANGED standalone

\* A handler that changed nothing returns to the event loop (the message
\* box is dismissed).
handler_return ==
    /\ mainpc \in {"warn_running", "error_no_path", "error_missing_path", "cancel_return"}
    /\ mainpc' = "idle"
    /\ UNCHANGED <<shared, nworkers, workerv, cancelAt, simv>>
    /\ UNCHANGED standalone

\* ----------------------------------------- process_transcription (worker)

Goto(w, pc) == wpc' = [wpc EXCEPT ![w] = pc]

\* The worker reads the Tk variables (self.input_path.get() again) and
\* resets the progress bar.
w_start(w, input_path) ==
    /\ wpc[w] = "w_start"
    /\ wpath' = [wpath EXCEPT ![w] = input_path]
    /\ progress_var' = FloatOf(0)
    /\ Goto(w, "w_status")
    /\ UNCHANGED <<processing, status_var, mainv>>
    /\ UNCHANGED <<nfiles, idx, output_files, errors, raised, outcome, snapped>>
    /\ UNCHANGED <<cancelAt, simv>>
    /\ UNCHANGED standalone

\* The first status, the progress thread is started, and the worker enters
\* batch_transcribe or transcribe_audio (os.path.isdir(input_path)).
w_status(w) ==
    /\ wpc[w] = "w_status"
    /\ status_var' = StatusStarting
    /\ simpc' = [simpc EXCEPT ![w] = "init"]
    /\ Goto(w, IF wpath[w] = "dir" THEN "b_list" ELSE "s_infer")
    /\ UNCHANGED <<processing, progress_var, mainv>>
    /\ UNCHANGED <<wpath, nfiles, idx, output_files, errors, raised, outcome, snapped>>
    /\ UNCHANGED <<cancelAt, step, ticks>>
    /\ UNCHANGED standalone

\* An exception that is swallowed: the worker goes on as if the call had
\* returned.
Raise_swallowed(w) ==
    /\ raised' = [raised EXCEPT ![w] = TRUE]
    /\ wpc' = [wpc EXCEPT ![w] = "w_set100"]

\* An exception leaves the try body for the handler of process_transcription.
Raise(w) ==
    /\ raised' = [raised EXCEPT ![w] = TRUE]
    /\ Goto(w, "w_except")

\* transcribe_audio with a test of the flag between model.transcribe and
\* the write: after a cancel the output file is not written.
transcribe_audio_checked(w) ==
    /\ wpc[w] = "s_infer"
    /\ \/ /\ wpath[w] = "file"
          /\ output_files' = [output_files EXCEPT ![w] = IF processing THEN @ + 1 ELSE @]
          /\ Goto(w, "w_set100")
          /\ UNCHANGED raised
       \/ /\ Raise(w)
          /\ UNCHANGED output_files
    /\ UNCHANGED <<shared, mainv>>
    /\ UNCHANGED <<wpath, nfiles, idx, errors, outcome, snapped>>
    /\ UNCHANGED <<cancelAt, simv>>
    /\ UNCHANGED standalone

\* transcribe_audio: whisper.load_model, model.transcribe and the write of
\* the output file; each returns or raises, and transcribe raises when the
\* path the worker read names no file.  There is no test of the flag here.
transcribe_audio(w) ==
    /\ wpc[w] = "s_infer"
    /\ \/ /\ wpath[w] = "file"
          /\ output_files' = [output_files EXCEPT ![w] = @ + 1]
          /\ Goto(w, "w_set100")
          /\ UNCHANGED raised
       \/ /\ Raise(w)
          /\ UNCHANGED output_files
    /\ UNCHANGED <<shared, mainv>>
    /\ UNCHANGED <<wpath, nfiles, idx, errors, outcome, snapped>>
    /\ UNCHANGED <<cancelAt, simv>>
    /\ UNCHANGED standalone

\* batch_transcribe up to its loop: os.listdir finds n eligible files; with
\* none it returns at once; else whisper.load_model returns or raises
\* (outside the loop's try).
b_list(w) ==
    /\ wpc[w] = "b_list"
    /\ \/ /\ Goto(w, "w_set100")
          /\ UNCHANGED <<nfiles, raised>>
       \/ /\ \E n \in 1..MaxFiles : nfiles' = [nfiles EXCEPT ![w] = n]
          /\ Goto(w, "b_check")
          /\ UNCHANGED raised
       \/ /\ Raise(w)
          /\ UNCHANGED nfiles
    /\ UNCHANGED <<shared, mainv>>
    /\ UNCHANGED <<wpath, idx, output_files, errors, outcome, snapped>>
    /\ UNCHANGED <<cancelAt, simv>>
    /\ UNCHANGED standalone

\* The head of the loop: it ends when the files are exhausted, breaks when
\* the flag is clear, and otherwise goes on to the next file.
b_check(w) ==
    /\ wpc[w] = "b_check"
    /\ Goto(w, IF idx[w] = nfiles[w] THEN "w_set100"
               ELSE IF ~processing THEN "w_set100"
               ELSE "b_status")
    /\ UNCHANGED <<shared, mainv>>
    /\ UNCHANGED <<wpath, nfiles, idx, output_files, errors, raised, outcome, snapped>>
    /\ UNCHANGED <<cancelAt, simv>>
    /\ UNCHANGED standalone

\* self.status_var.set("Transcribing file i of n: ...").
b_status(w) ==
    /\ wpc[w] = "b_status"
    /\ status_var' = StatusFile
    /\ Goto(w, "b_infer")
    /\ UNCHANGED <<processing, progress_var, mainv>>
    /\ UNCHANGED <<wpath, nfiles, idx, output_files, errors, raised, outcome, snapped>>
    /\ UNCHANGED <<cancelAt, simv>>
    /\ UNCHANGED standalone

\* An except clause that logs the error and gives the batch up.
FileError_abandon(w) ==
    /\ errors' = [errors EXCEPT ![w] = @ + 1]
    /\ idx' = [idx EXCEPT ![w] = nfiles[w]]
    /\ wpc' = [wpc EXCEPT ![w] = "b_check"]

\* The loop's except clause: the error is logged and the loop goes on.
FileError(w) ==
    /\ errors' = [errors EXCEPT ![w] = @ + 1]
    /\ idx' = [idx EXCEPT ![w] = @ + 1]
    /\ Goto(w, "b_check")

\* model.transcribe on one file of the batch and the write of its output,
\* appended to output_files; or either raises.
b_infer(w) ==
    /\ wpc[w] = "b_infer"
    /\ \/ /\ output_files' = [output_files EXCEPT ![w] = @ + 1]
          /\ idx' = [idx EXCEPT ![w] = @ + 1]
          /\ Goto(w, "b_check")
          /\ UNCHANGED errors
       \/ /\ FileError(w)
          /\ UNCHANGED output_files
    /\ UNCHANGED <<shared, mainv>>
    /\ UNCHANGED <<wpath, nfiles, raised, outcome, snapped>>
    /\ UNCHANGED <<cancelAt, simv>>
    /\ UNCHANGED standalone

\* "Ensure progress bar reaches 100%": self.progress_var.set(100).
w_set100(w) ==
    /\ wpc[w] = "w_set100"
    /\ progress_var' = FloatOf(FullProgress)
    /\ snapped' = [snapped EXCEPT ![w] = TRUE]
    /\ Goto(w, "w_ifproc")
    /\ UNCHANGED <<processing, status_var, mainv>>
    /\ UNCHANGED <<wpath, nfiles, idx, output_files, errors, raised, outcome>>
    /\ UNCHANGED <<cancelAt, simv>>
    /\ UNCHANGED standalone

\* if self.processing:  # If not cancelled
w_ifproc(w) ==
    /\ wpc[w] = "w_ifproc"
    /\ Goto(w, IF processing THEN "w_completed" ELSE "w_finally")
    /\ UNCHANGED <<shared, mainv>>
    /\ UNCHANGED <<wpath, nfiles, idx, output_files, errors, raised, outcome, snapped>>
    /\ UNCHANGED <<cancelAt, simv>>
    /\ UNCHANGED standalone

\* The success status; the worker then waits in messagebox.showinfo.
w_completed(w) ==
    /\ wpc[w] = "w_completed"
    /\ status_var' = StatusCompleted
    /\ outcome' = [outcome EXCEPT ![w] = "completed"]
    /\ Goto(w, "w_finally")
    /\ UNCHANGED <<processing, progress_var, mainv>>
    /\ UNCHANGED <<wpath, nfiles, idx, output_files, errors, raised, snapped>>
    /\ UNCHANGED <<cancelAt, simv>>
    /\ UNCHANGED standalone

\* A handler that also fills the progress bar.
w_except_fills(w) ==
    /\ wpc[w] = "w_except"
    /\ status_var' = StatusError
    /\ progress_var' = FloatOf(FullProgress)
    /\ snapped' = [snapped EXCEPT ![w] = TRUE]
    /\ outcome' = [outcome EXCEPT ![w] = "error"]
    /\ wpc' = [wpc EXCEPT ![w] = "w_finally"]
    /\ UNCHANGED <<processing, mainv>>
    /\ UNCHANGED <<wpath, nfiles, idx, output_files, errors, raised>>
    /\ UNCHANGED <<cancelAt, simv>>
    /\ UNCHANGED standalone

\* except Exception: the error status; the worker then waits in
\* messagebox.showerror.
w_except(w) ==
    /\ wpc[w] = "w_except"
    /\ status_var' = StatusError
    /\ outcome' = [outcome EXCEPT ![w] = "error"]
    /\ Goto(w, "w_finally")
    /\ UNCHANGED <<processing, progress_var, mainv>>
    /\ UNCHANGED <<wpath, nfiles, idx, output_files, errors, raised, snapped>>
    /\ UNCHANGED <<cancelAt, simv>>
    /\ UNCHANGED standalone

\* A worker that ends without the finally clause: the flag is left as it
\* is.
w_finally_keeps_flag(w) ==
    /\ wpc[w] = "w_finally"
    /\ Goto(w, "done")
    /\ wpath' = [wpath EXCEPT ![w] = ""]
    /\ nfiles' = [nfiles EXCEPT ![w] = 0]
    /\ idx' = [idx EXCEPT ![w] = 0]
    /\ output_files' = [output_files EXCEPT ![w] = 0]
    /\ errors' = [errors EXCEPT ![w] = 0]
    /\ raised' = [raised EXCEPT ![w] = FALSE]
    /\ outcome' = [outcome EXCEPT ![w] = "none"]
    /\ snapped' = [snapped EXCEPT ![w] = FALSE]
    /\ cancelAt' = [cancelAt EXCEPT ![w] = "none"]
    /\ UNCHANGED <<processing, progress_var, status_var, mainv, simv>>
    /\ UNCHANGED standalone

\* finally: self.processing = False; the thread ends, and its locals (and
\* the history kept of it) are gone.
w_finally(w) ==
    /\ wpc[w] = "w_finally"
    /\ processing' = FALSE
    /\ Goto(w, "done")
    /\ wpath' = [wpath EXCEPT ![w] = ""]
    /\ nfiles' = [nfiles EXCEPT ![w] = 0]
    /\ idx' = [idx EXCEPT ![w] = 0]
    /\ output_files' = [output_files EXCEPT ![w] = 0]
    /\ errors' = [errors EXCEPT ![w] = 0]
    /\ raised' = [raised EXCEPT ![w] = FALSE]
    /\ outcome' = [outcome EXCEPT ![w] = "none"]
    /\ snapped' = [snapped EXCEPT ![w] = FALSE]
    /\ cancelAt' = [cancelAt EXCEPT ![w] = "none"]
    /\ UNCHANGED <<progress_var, status_var, mainv, simv>>
    /\ UNCHANGED standalone

\* ------------------------------------------- simulate_progress (thread)

\* The increment the loop chooses for the current step.
Increment(s) ==
    IF FloatLess(s, FloatOf(FastBelow)) THEN FastIncrement
    ELSE IF FloatLess(s, FloatOf(MediumBelow)) THEN MediumIncrement
    ELSE IF FloatLess(s, FloatOf(SlowBelow)) THEN SlowIncrement
    ELSE LastIncrement

\* self.progress_var.set(0); step = 0
sim_init(w) ==
    /\ simpc[w] = "init"
    /\ progress_var' = FloatOf(0)
    /\ step' = [step EXCEPT ![w] = FloatOf(0)]
    /\ simpc' = [simpc EXCEPT ![w] = "loop"]
    /\ UNCHANGED <<processing, status_var, mainv, workerv, cancelAt, ticks>>
    /\ UNCHANGED standalone

\* while self.processing and step < 95: ... step += increment; the thread
\* is followed for budget iterations of the loop.
sim_loop(w, budget) ==
    /\ simpc[w] = "loop"
    /\ IF processing /\ FloatLess(step[w], FloatOf(StepCap))
       THEN /\ ticks[w] < budget
            /\ step' = [step EXCEPT ![w] = FloatAdd(@, Increment(@))]
            /\ ticks' = [ticks EXCEPT ![w] = @ + 1]
            /\ simpc' = [simpc EXCEPT ![w] = "set"]
       ELSE /\ simpc' = [simpc EXCEPT ![w] = "done"]
            /\ step' = [step EXCEPT ![w] = FloatOf(0)]
            /\ ticks' = [ticks EXCEPT ![w] = 0]
    /\ UNCHANGED <<shared, mainv, workerv, cancelAt>>
    /\ UNCHANGED standalone

\* self.progress_var.set(step); time.sleep(0.1)
sim_set(w) ==
    /\ simpc[w] = "set"
    /\ progress_var' = step[w]
    /\ simpc' = [simpc EXCEPT ![w] = "loop"]
    /\ UNCHANGED <<processing, status_var, mainv, workerv, cancelAt, step, ticks>>
    /\ UNCHANGED standalone

\* ------------------------------------------------------ specification

process_transcription(w) ==
    \/ \E k \in PathKinds : w_start(w, k)
    \/ w_status(w)
    \/ transcribe_audio(w)
    \/ b_list(w)
    \/ b_check(w)
    \/ b_status(w)
    \/ b_infer(w)
    \/ w_set100(w)
    \/ w_ifproc(w)
    \/ w_completed(w)
    \/ w_except(w)
    \/ w_finally(w)

simulate_progress(w, budget) ==
    \/ sim_init(w)
    \/ sim_loop(w, budget)
    \/ sim_set(w)

Next ==
    \/ \E k \in PathKinds : start_transcription(k)
    \/ cancel_transcription
    \/ cancel_status
    \/ handler_return
    \/ \E w \in Workers : process_transcription(w)
    \/ \E w \in Workers : simulate_progress(w, MaxTicks)

Spec == Init /\ [][Next]_vars

\* The main thread and the workers alone: the progress threads are created
\* but not scheduled.  They write progress_var and their own locals only,
\* and nothing reads progress_var, so this is the projection of Spec on
\* every other variable.
NextControl ==
    \/ \E k \in PathKinds : start_transcription(k)
    \/ cancel_transcription
    \/ cancel_status
    \/ handler_return
    \/ \E w \in Workers : process_transcription(w)

SpecControl == Init /\ [][NextControl]_vars

\* The worker stands in messagebox.showinfo or messagebox.showerror: the
\* call returns when the user closes the box, and only then does the
\* finally clause run.
DialogOpen(w) == wpc[w] = "w_finally" /\ outcome[w] \in {"completed", "error"}

\* The steps a worker thread takes by being scheduled: all of them but the
\* return of a message box.
Scheduled(w) == ~DialogOpen(w) /\ process_transcription(w)

\* SpecControl with every worker thread scheduled fairly.  Nothing obliges
\* the user to click: the handlers of the main thread and the return of a
\* message box may never happen.
SpecLive == SpecControl /\ \A w \in Workers : WF_vars(Scheduled(w))

\* The user never presses Cancel: start_transcription, the workers and the
\* progress threads.
NextNoCancel ==
    \/ \E k \in PathKinds : start_transcription(k)
    \/ handler_return
    \/ \E w \in Workers : process_transcription(w)
    \/ \E w \in Workers : simulate_progress(w, MaxTicks)

SpecNoCancel == Init /\ [][NextNoCancel]_vars

\* One job, started on whatever the entry holds, and then the window is
\* left alone: its worker and its progress thread, the latter followed
\* through its whole loop.
NextProgress ==
    \/ nworkers = 0 /\ \E k \in PathKinds : start_transcription(k)
    \/ handler_return
    \/ process_transcription(1)
    \/ simulate_progress(1, MaxRunTicks)

SpecProgress == Init /\ [][NextProgress]_vars

\* ------------------------------------------------------ format_timestamp

\* A segment time of ms thousandths of a second, as the float the inference
\* engine hands over: a sign and a magnitude.
Seconds(ms) ==
    LET a == IF ms < 0 THEN -ms ELSE ms
    IN  [neg |-> ms < 0, mag |-> Float(a \div 1000, a % 1000, 1000)]

\* int(seconds / n), n = 3600 or 60: int() truncates towards zero.  The
\* division rounds its quotient to a float first, which reaches the next
\* integer only from within a few units in the last place of a multiple of
\* n; a time in thousandths is such a multiple or a thousandth off one.
IntQuotient(x, n) == x.int \div n

\* seconds % n: fmod is exact and has the sign of seconds; Python adds n
\* to a negative remainder (a rounded addition) and turns -0.0 into 0.0.
FloatMod(seconds, n) ==
    LET m == [int |-> seconds.mag.int % n, frac |-> seconds.mag.frac]
    IN  IF ~seconds.neg \/ IsZero(m) THEN m ELSE IntMinus(n, m)

\* int((seconds - int(seconds)) * 1000): the subtraction is exact, the
\* product is rounded, and int() drops what is left of its fraction.
Millisecs(seconds) ==
    LET ms == FloatTimes([int |-> 0, frac |-> seconds.mag.frac], 1000).int
    IN  IF seconds.neg THEN -ms ELSE ms

RECURSIVE Zeros(_)
Zeros(k) == IF k <= 0 THEN "" ELSE "0" \o Zeros(k - 1)

RECURSIVE Digits(_)
\* How many decimal digits n >= 0 has.
Digits(n) == IF n < 10 THEN 1 ELSE 1 + Digits(n \div 10)

\* The format specs :02d and :03d: zeros fill the field up to its width,
\* behind the sign, which counts for one place.
Padded(n, width) ==
    IF n < 0 THEN "-" \o Zeros(width - 1 - Digits(-n)) \o ToString(-n)
    ELSE Zeros(width - Digits(n)) \o ToString(n)

\* format_timestamp (the method and the module-level function are the same
\* text).  No statement of it tests the sign of seconds, and none raises.
format_timestamp(seconds, output_format) ==
    LET hours == IF seconds.neg THEN -IntQuotient(seconds.mag, 3600)
                 ELSE IntQuotient(seconds.mag, 3600)
        minutes == IntQuotient(FloatMod(seconds, 3600), 60)
        secs == FloatMod(seconds, 60).int
        millisecs == Millisecs(seconds)
    IN  Padded(hours, 2) \o ":" \o Padded(minutes, 2) \o ":" \o Padded(secs, 2)
          \o (IF output_format = "srt" THEN "," ELSE ".") \o Padded(millisecs, 3)

\* ------------------------------------------------------ the output file

OutputFormats == {"txt", "srt", "vtt", "json"}

\* segment["text"].strip(), on the texts the model's results hold.
strip(text) == IF text = " Hello. " THEN "Hello." ELSE text

\* start_time --> end_time
Cue(segment, output_format) ==
    format_timestamp(Seconds(segment.start), output_format) \o " --> "
        \o format_timestamp(Seconds(segment.end), output_format)

\* What the loop over enumerate(segments) writes for segment i (from 0),
\* line by line: srt numbers the block, vtt puts the header before the
\* first block.
Block(segment, i, output_format) ==
    IF output_format = "srt"
    THEN <<ToString(i + 1), Cue(segment, output_format), strip(segment.text), "">>
    ELSE (IF i = 0 THEN <<"WEBVTT", "">> ELSE <<>>)
            \o <<Cue(segment, output_format), strip(segment.text), "">>

RECURSIVE Blocks(_, _, _)
\* The blocks of segments i, i+1, ... (from 0) one after the other.
Blocks(segments, i, output_format) ==
    IF i >= Len(segments) THEN <<>>
    ELSE Block(segments[i + 1], i, output_format) \o Blocks(segments, i + 1, output_format)

\* The lines of the file transcribe_audio writes for a result (the method
\* and the module-level function write the same): open(output_file, "w")
\* creates it empty, then come the writes of the format's branch.
Written(res, output_format) ==
    CASE output_format = "txt" -> <<res.text>>
      [] output_format \in {"srt", "vtt"} -> Blocks(res.segments, 0, output_format)
      [] output_format = "json" -> <<"{", "text", "segments", "}">>

\* ------------------------------------------- main(), command-line mode

\* The most segments a transcription result has.
MaxSegments == 2

\* What model.transcribe can return: n segments one after the other, each
\* two and a half seconds long, their times in thousandths of a second.
Results ==
    {[text |-> " Hello. ",
      segments |-> [i \in 1..n |->
                      [start |-> (i - 1) * 2500, end |-> i * 2500, text |-> " Hello. "]]] :
        n \in 0..MaxSegments}

MsgGpu == "GPU available"
MsgNoGpu == "GPU not available, using CPU"
MsgMissing == "Input path does not exist"
MsgNoFiles == "No audio files found in the directory."
MsgSaved == "Transcription saved to"
MsgError == "Error processing"

\* main() is entered with --input and without --gui: argparse has taken
\* the arguments (args.device is None, "cuda" or "cpu"), and the machine
\* has a GPU or has none.
InitCli ==
    /\ InitGui
    /\ NoTs
    /\ NoRoute
    /\ cli_pc = "main"
    /\ argv \in [input : PathKinds \ {""}, device : {"None", "cuda", "cpu"},
                 format : OutputFormats]
    /\ gpu_available \in BOOLEAN
    /\ device = "None"
    /\ cli_nfiles = 0
    /\ cli_idx = 0
    /\ result = [text |-> "", segments |-> <<>>]
    /\ out_file = <<>>
    /\ cli_outputs = 0
    /\ stdout = {}
    /\ exit_status = -1

\* "Check GPU availability" and "Determine device to use": the message,
\* then args.device as it is, or cuda/cpu by availability when it is None.
main_device ==
    /\ cli_pc = "main"
    /\ stdout' = stdout \cup {IF gpu_available THEN MsgGpu ELSE MsgNoGpu}
    /\ device' = IF argv.device = "None"
                 THEN (IF gpu_available THEN "cuda" ELSE "cpu")
                 ELSE argv.device
    /\ cli_pc' = "dispatch"
    /\ UNCHANGED <<argv, gpu_available, cli_nfiles, cli_idx, result, out_file,
                   cli_outputs, exit_status>>
    /\ UNCHANGED notcli

\* os.path.isdir / os.path.isfile on args.input; the else branch prints
\* and main returns.
main_dispatch ==
    /\ cli_pc = "dispatch"
    /\ IF argv.input = "dir" THEN cli_pc' = "batch_list" /\ UNCHANGED stdout
       ELSE IF argv.input = "file" THEN cli_pc' = "load" /\ UNCHANGED stdout
       ELSE cli_pc' = "return" /\ stdout' = stdout \cup {MsgMissing}
    /\ UNCHANGED <<argv, gpu_available, device, cli_nfiles, cli_idx, result,
                   out_file, cli_outputs, exit_status>>
    /\ UNCHANGED notcli

\* batch_transcribe up to its loop: os.listdir raises (no handler up to
\* the interpreter), finds no eligible file, or finds n of them.
cli_batch_list ==
    /\ cli_pc = "batch_list"
    /\ \/ cli_pc' = "traceback" /\ UNCHANGED <<cli_nfiles, stdout>>
       \/ cli_pc' = "return" /\ stdout' = stdout \cup {MsgNoFiles} /\ UNCHANGED cli_nfiles
       \/ /\ \E n \in 1..MaxFiles : cli_nfiles' = n
          /\ cli_pc' = "batch_next"
          /\ UNCHANGED stdout
    /\ UNCHANGED <<argv, gpu_available, device, cli_idx, result, out_file,
                   cli_outputs, exit_status>>
    /\ UNCHANGED notcli

\* for audio_file in tqdm(audio_files): the next file, or the return.
cli_batch_next ==
    /\ cli_pc = "batch_next"
    /\ cli_pc' = IF cli_idx = cli_nfiles THEN "return" ELSE "load"
    /\ UNCHANGED <<argv, gpu_available, device, cli_nfiles, cli_idx, result,
                   out_file, cli_outputs, stdout, exit_status>>
    /\ UNCHANGED notcli

\* An exception inside transcribe_audio: in a batch the loop's handler
\* prints it and the loop goes on; for a single file nothing catches it.
cli_raise ==
    IF argv.input = "dir"
    THEN /\ stdout' = stdout \cup {MsgError}
         /\ cli_idx' = cli_idx + 1
         /\ cli_pc' = "batch_next"
    ELSE /\ cli_pc' = "traceback"
         /\ UNCHANGED <<stdout, cli_idx>>

\* whisper.load_model(model_name, device=device): torch cannot place the
\* model on a cuda device the machine does not have.
cli_load_model ==
    /\ cli_pc = "load"
    /\ \/ /\ device = "cuda" => gpu_available
          /\ cli_pc' = "infer"
          /\ UNCHANGED <<stdout, cli_idx>>
       \/ cli_raise
    /\ UNCHANGED <<argv, gpu_available, device, cli_nfiles, result, out_file,
                   cli_outputs, exit_status>>
    /\ UNCHANGED notcli

\* result = model.transcribe(audio_path, **transcribe_options)
cli_transcribe ==
    /\ cli_pc = "infer"
    /\ \/ /\ result' \in Results
          /\ cli_pc' = "write"
          /\ UNCHANGED <<stdout, cli_idx>>
       \/ cli_raise /\ UNCHANGED result
    /\ UNCHANGED <<argv, gpu_available, device, cli_nfiles, out_file,
                   cli_outputs, exit_status>>
    /\ UNCHANGED notcli

\* "Save the transcription based on format", the message and the return;
\* batch_transcribe appends the path to output_files.
cli_write ==
    /\ cli_pc = "write"
    /\ \/ /\ out_file' = Written(result, argv.format)
          /\ stdout' = stdout \cup {MsgSaved}
          /\ IF argv.input = "dir"
             THEN /\ cli_outputs' = cli_outputs + 1
                  /\ cli_idx' = cli_idx + 1
                  /\ cli_pc' = "batch_next"
             ELSE /\ cli_pc' = "return"
                  /\ UNCHANGED <<cli_outputs, cli_idx>>
       \/ cli_raise /\ UNCHANGED <<out_file, cli_outputs>>
    /\ UNCHANGED <<argv, gpu_available, device, cli_nfiles, result, exit_status>>
    /\ UNCHANGED notcli

\* main returns and the interpreter exits with status 0; an exception that
\* nothing caught ends it with a traceback and status 1.
cli_exit ==
    /\ cli_pc \in {"return", "traceback"}
    /\ exit_status' = IF cli_pc = "return" THEN 0 ELSE 1
    /\ cli_pc' = "exited"
    /\ UNCHANGED <<argv, gpu_available, device, cli_nfiles, cli_idx, result,
                   out_file, cli_outputs, stdout>>
    /\ UNCHANGED notcli

NextCli ==
    \/ main_device
    \/ main_dispatch
    \/ cli_batch_list
    \/ cli_batch_next
    \/ cli_load_model
    \/ cli_transcribe
    \/ cli_write
    \/ cli_exit

SpecCli == InitCli /\ [][NextCli]_vars

\* ------------------------------------------- format_timestamp, called

\* The longest times looked at, in hours.
MaxHours == 1

\* The thousandths of a second looked at.
Thousandths == {0, 1, 250, 500, 580, 999}

\* The segment times format_timestamp is called with, in thousandths of a
\* second: whisper promises none below zero, and nothing checks that.
Times ==
    {sign * (((h * 60 + m) * 60 + s) * 1000 + f) :
        sign \in {1, -1}, h \in 0..MaxHours, m \in {0, 1, 59}, s \in {0, 1, 59},
        f \in Thousandths}

InitTs ==
    /\ InitGui
    /\ NoCli
    /\ NoRoute
    /\ ts_pc = "call"
    /\ ts_time \in Times
    /\ ts_format \in {"srt", "vtt"}
    /\ ts_result = ""

\* The call returns: no path through format_timestamp raises.
ts_return ==
    /\ ts_pc = "call"
    /\ ts_result' = format_timestamp(Seconds(ts_time), ts_format)
    /\ ts_pc' = "returned"
    /\ UNCHANGED <<ts_time, ts_format>>
    /\ UNCHANGED notts

NextTs == ts_return

SpecTs == InitTs /\ [][NextTs]_vars

\* ------------------------------------------------ app.py, /transcribe

\* A POST /transcribe request has arrived at the Flask application.
InitRoute ==
    /\ InitGui
    /\ NoCli
    /\ NoTs
    /\ route_pc = "request"
    /\ scratch = FALSE
    /\ http_status = 0

\* Lines 13-16: the file and the form fields are read, then
\* `torch.cuda.is_available()` is evaluated.  app.py imports flask, whisper
\* and os and binds no name torch, so the evaluation raises NameError,
\* whatever the request.
route_device ==
    /\ route_pc = "request"
    /\ route_pc' = "raised"
    /\ UNCHANGED <<scratch, http_status>>
    /\ UNCHANGED notroute

\* audio_file.save(file_path)
route_save ==
    /\ route_pc = "save"
    /\ \/ scratch' = TRUE /\ route_pc' = "load"
       \/ route_pc' = "raised" /\ UNCHANGED scratch
    /\ UNCHANGED http_status
    /\ UNCHANGED notroute

\* whisper.load_model(model_name, device=device)
route_load_model ==
    /\ route_pc = "load"
    /\ route_pc' \in {"infer", "raised"}
    /\ UNCHANGED <<scratch, http_status>>
    /\ UNCHANGED notroute

\* model.transcribe(file_path)
route_transcribe ==
    /\ route_pc = "infer"
    /\ route_pc' \in {"remove", "raised"}
    /\ UNCHANGED <<scratch, http_status>>
    /\ UNCHANGED notroute

\* os.remove(file_path) and the response.
route_remove ==
    /\ route_pc = "remove"
    /\ scratch' = FALSE
    /\ http_status' = 200
    /\ route_pc' = "done"
    /\ UNCHANGED notroute

\* No statement of the route catches an exception: Flask answers with
\* status 500 (the debugger's page under debug=True).
route_error ==
    /\ route_pc = "raised"
    /\ http_status' = 500
    /\ route_pc' = "done"
    /\ UNCHANGED scratch
    /\ UNCHANGED notroute

NextRoute ==
    \/ route_device
    \/ route_save
    \/ route_load_model
    \/ route_transcribe
    \/ route_remove
    \/ route_error

SpecRoute == InitRoute /\ [][NextRoute]_vars

\* ------------------------------------------------------------- claims

\* The worker has reset the progress bar and has not ended.
InJob(w) == wpc[w] \notin {"none", "w_start", "done"}

\* The latest job's pipeline has ended or was cancelled: the flag is clear
\* and the status is a terminal one.
JobTerminal ==
    /\ nworkers > 0
    /\ ~processing
    /\ status_var \in {StatusCompleted, StatusCancelled, StatusError}

\* The latest job is in the Completed state: its worker has set the
\* success status and no later start was accepted.
JobCompleted ==
    /\ nworkers > 0
    /\ wpc[nworkers] \in {"w_finally", "done"}
    /\ status_var = StatusCompleted

\* C1: in every reachable state at most one worker thread
\* (process_transcription) is alive, also when a start follows a cancel
\* before the cancelled worker has finished.
C1_AtMostOneWorker == Cardinality({w \in Workers : Alive(w)}) <= 1

\* C2: a start_transcription call made while the flag is set ends in the
\* "already in progress" warning, creates no worker and leaves the flag,
\* the progress, the status and every worker's state and outputs as they
\* were.
C2_StartWhileRunningRejected ==
    [][\A k \in PathKinds :
         (processing /\ start_transcription(k)) =>
            /\ mainpc' = "warn_running"
            /\ UNCHANGED <<processing, progress_var, status_var, nworkers>>
            /\ UNCHANGED <<workerv, cancelAt, simv>>]_vars

\* C2 witness: the warning is open while a batch that has already written
\* an output is still running.
C2_Witness ==
    /\ mainpc = "warn_running"
    /\ processing
    /\ \E w \in Workers : Alive(w) /\ output_files[w] > 0

\* C3: from the worker's reset of the progress bar until the worker ends,
\* no step lowers the progress value.
C3_ProgressMonotone ==
    [][(\E w \in Workers : InJob(w) /\ InJob(w)') =>
            ~FloatLess(progress_var', progress_var)]_vars

\* C4: whenever the job is in the Completed state the progress value is
\* exactly 100.
C4_CompletedIsFull == JobCompleted => progress_var = FloatOf(FullProgress)

\* C5: a cancel that takes effect while the batch worker stands between
\* two files (file i >= 1 done, file i+1 not begun) makes the worker start
\* no further file, add no output and never report Completed.
C5_CancelBetweenFiles ==
    [][\A w \in Workers :
         (cancelAt[w] = "between_files" /\ wpc'[w] # "done") =>
            /\ wpc'[w] \notin {"b_status", "b_infer", "w_completed"}
            /\ idx'[w] = idx[w]
            /\ output_files'[w] = output_files[w]
            /\ outcome'[w] # "completed"]_vars

\* C6: with no cancel, a batch of N files of which exactly one fails has
\* gone through every file, has written N-1 outputs, has logged the one
\* error, and ends Completed (never in the exception handler).
C6_OneFailureIsolated ==
    \A w \in Workers :
        (wpc[w] = "w_finally" /\ wpath[w] = "dir" /\ errors[w] = 1) =>
            /\ idx[w] = nfiles[w]
            /\ output_files[w] = nfiles[w] - 1
            /\ ~raised[w]
            /\ outcome[w] = "completed"
            /\ status_var = StatusCompleted

\* C6 witness: a batch of two files, one failed, one written, Completed.
C6_Witness ==
    \E w \in Workers :
        /\ wpc[w] = "w_finally"
        /\ nfiles[w] = 2
        /\ errors[w] = 1
        /\ output_files[w] = 1
        /\ outcome[w] = "completed"

\* C7: cancel_transcription called with the flag clear changes neither the
\* flag, nor the status, nor the progress, nor any worker: the handler
\* just returns.
C7_CancelWhenIdleIsNoOp ==
    [][(~processing /\ cancel_transcription) =>
            /\ mainpc' = "cancel_return"
            /\ UNCHANGED <<processing, progress_var, status_var, nworkers>>
            /\ UNCHANGED <<workerv, cancelAt, simv>>]_vars

\* C7 witness: cancel was pressed on a job that was already cancelled and
\* has ended, and fell through.
C7_Witness ==
    /\ mainpc = "cancel_return"
    /\ ~processing
    /\ status_var = StatusCancelled
    /\ nworkers > 0
    /\ \A w \in Workers : ~Alive(w)

\* C8: in single-file mode an exception of the inference or of the write
\* takes the worker to the handler, which sets the status "Error occurred";
\* the worker never reports Completed, and it ends with the flag clear.
C8_SingleFileFailure ==
    [][\A w \in Workers :
         /\ (raised'[w] /\ wpath'[w] # "dir") =>
               /\ wpc'[w] \in {"w_except", "w_finally"}
               /\ outcome'[w] # "completed"
               /\ (wpc'[w] = "w_finally" => outcome'[w] = "error")
         /\ (raised[w] /\ wpath[w] # "dir" /\ wpc[w] = "w_except" /\ wpc'[w] # "w_except") =>
               status_var' = StatusError
         /\ (raised[w] /\ wpath[w] # "dir" /\ wpc[w] = "w_finally" /\ wpc'[w] # "w_finally") =>
               (wpc'[w] = "done" /\ ~processing')]_vars

\* C8 witness: an existing file whose inference or write raised; the
\* status is "Error occurred" and the worker is about to end.
C8_Witness ==
    \E w \in Workers :
        /\ wpc[w] = "w_finally"
        /\ wpath[w] = "file"
        /\ raised[w]
        /\ outcome[w] = "error"
        /\ status_var = StatusError

\* C9: once the job is terminal (flag clear, terminal status), no step of
\* a progress thread changes the progress value.
C9_NoProgressAfterTerminal ==
    [][\A w \in Workers :
         (JobTerminal /\ simulate_progress(w, MaxTicks)) => progress_var' = progress_var]_vars

\* C10 as claimed: a worker that has set the progress to 100 and is about
\* to end has reported Completed.
C10_FullOnlyWhenCompleted ==
    \A w \in Workers :
        (wpc[w] = "w_finally" /\ snapped[w]) => outcome[w] = "completed"

\* C10 amended: the worker sets the progress to 100 exactly when the
\* pipeline body returned without raising, whether or not the job was
\* cancelled; a job that ends Failed never has its progress set to 100,
\* and a job that reports Completed always has.
C10_FullUnlessFailed ==
    \A w \in Workers :
        /\ wpc[w] = "w_finally" => (snapped[w] <=> ~raised[w])
        /\ outcome[w] = "error" => ~snapped[w]
        /\ outcome[w] = "completed" => snapped[w]

\* C10 witness: a job that ended Failed, its progress never set to 100.
C10_Witness ==
    \E w \in Workers :
        /\ wpc[w] = "w_finally"
        /\ outcome[w] = "error"
        /\ ~snapped[w]
        /\ progress_var # FloatOf(FullProgress)

\* C11: when main() is given --device cuda on a machine without a GPU, the
\* device it resolves is no device at all (the resolver reports the error):
\* neither "cpu", a silent fallback, nor "cuda", handed on to
\* whisper.load_model.
C11_UnavailableCudaReported ==
    (argv.device = "cuda" /\ ~gpu_available /\ cli_pc \notin {"none", "main"}) =>
        device \notin {"cuda", "cpu"}

\* C12: every vtt file that transcribe_audio has written, also one for a
\* result without segments, begins with the line WEBVTT and an empty line,
\* and holds the line WEBVTT once.
C12_VttHeaderAlways ==
    (argv.format = "vtt" /\ MsgSaved \in stdout) =>
        /\ Len(out_file) >= 2
        /\ out_file[1] = "WEBVTT"
        /\ out_file[2] = ""
        /\ Cardinality({k \in 1..Len(out_file) : out_file[k] = "WEBVTT"}) = 1

\* C13: for every time of a whole number t >= 0 of thousandths of a
\* second, format_timestamp returns floor(t/3600), floor((t mod 3600)/60)
\* and floor(t mod 60) of the seconds in two digits each and the
\* thousandths left over in three, with "," for srt and "." for vtt.
C13_TimestampOfMilliseconds ==
    LET t == ts_time
    IN  (ts_pc = "returned" /\ t >= 0) =>
            ts_result = Padded(t \div 3600000, 2) \o ":"
                            \o Padded((t \div 60000) % 60, 2) \o ":"
                            \o Padded((t \div 1000) % 60, 2)
                            \o (IF ts_format = "srt" THEN "," ELSE ".")
                            \o Padded(t % 1000, 3)

\* C14: when the command-line process has ended, a run whose --input was
\* neither a file nor a directory has printed the error and ended with a
\* status other than 0, and a run that saved a transcription (single file
\* or batch) has ended with status 0.
C14_ExitStatus ==
    cli_pc = "exited" =>
        /\ argv.input = "missing" => (MsgMissing \in stdout /\ exit_status # 0)
        /\ MsgSaved \in stdout => exit_status = 0

\* C16: a start_transcription call that finds the entry empty or naming a
\* path that does not exist starts nothing: it ends in a message box (the
\* error "Please select an input file or directory!" or "Input path does
\* not exist!" when no job runs, the warning of C2 when one does), creates
\* no worker, leaves the flag as it was, and changes neither the progress
\* nor the status nor any worker.
C16_InvalidPathRejected ==
    [][\A k \in {"", "missing"} :
         start_transcription(k) =>
            /\ mainpc' = IF processing THEN "warn_running"
                         ELSE IF k = "" THEN "error_no_path"
                         ELSE "error_missing_path"
            /\ UNCHANGED <<processing, progress_var, status_var, nworkers>>
            /\ UNCHANGED <<workerv, cancelAt, simv>>]_vars

\* C16 witness: after a job that ended Completed, a start with a path that
\* does not exist is in its error box; the flag is clear, the status and
\* the progress are those of the finished job.
C16_Witness ==
    /\ mainpc = "error_missing_path"
    /\ ~processing
    /\ status_var = StatusCompleted
    /\ progress_var = FloatOf(FullProgress)
    /\ \A w \in Workers : ~Alive(w)

\* C18: every value a progress thread writes is at most 95, and every
\* iteration of its loop adds the increment of the schedule (0.5 below 20,
\* 0.3 below 50, 0.1 below 80, 0.05 from there on), which is never larger
\* than the increment of the iteration before.
C18_EstimatorCapped ==
    [][\A w \in Workers :
         /\ sim_set(w) => ~FloatLess(FloatOf(StepCap), progress_var')
         /\ (simpc[w] = "loop" /\ simpc'[w] = "set") =>
               /\ step'[w] = FloatAdd(step[w], Increment(step[w]))
               /\ ~FloatLess(Increment(step[w]), Increment(step'[w]))]_vars

\* C17 as claimed: a single-file worker that was inside the inference call
\* when a cancel took effect has written no output file.
C17_NoOutputAfterCancel ==
    \A w \in Workers :
        (cancelAt[w] = "in_inference" /\ wpath[w] # "dir") => output_files[w] = 0

\* C17 amended: single-file mode has no checkpoint between the inference
\* and the write.  A worker that was inside the inference call when a
\* cancel took effect leaves transcribe_audio in one of two ways, whatever
\* the flag holds: an exception takes it to the handler with nothing
\* written, or the output file is written and it goes on to set the
\* progress to 100.
C17_CancelDoesNotStopWrite ==
    [][\A w \in Workers :
         (cancelAt[w] = "in_inference" /\ wpc[w] = "s_infer" /\ wpc'[w] # "s_infer") =>
            \/ /\ wpc'[w] = "w_except"
               /\ raised'[w]
               /\ output_files'[w] = output_files[w]
            \/ /\ wpc'[w] = "w_set100"
               /\ ~raised'[w]
               /\ output_files'[w] = output_files[w] + 1]_vars

\* C17 witness: the job was cancelled during the inference on an existing
\* file, no start followed, and the worker has written the output file.
C17_Witness ==
    \E w \in Workers :
        /\ cancelAt[w] = "in_inference"
        /\ wpath[w] = "file"
        /\ wpc[w] = "w_set100"
        /\ output_files[w] = 1
        /\ ~processing
        /\ status_var = StatusCancelled

\* C19 as claimed: once an accepted start_transcription has returned, the
\* progress shows 0: in no state is the flag set and the new worker about
\* to begin while the progress still shows an earlier job's value.  Only
\* states in which every earlier worker has ended are looked at, so that
\* no worker of a cancelled job is there to write the progress.
C19_ProgressResetByStart ==
    (/\ processing
     /\ mainpc = "idle"
     /\ nworkers > 0
     /\ wpc[nworkers] = "w_start"
     /\ \A v \in 1..(nworkers - 1) : wpc[v] = "done") =>
        progress_var = FloatOf(0)

\* C20: format_timestamp returns no string for a time below zero: every
\* call that has returned was made with a time of zero or more.
C20_NegativeTimeFails ==
    ts_pc = "returned" => ts_time >= 0

\* C21: a worker whose job a cancel has taken effect on begins no further
\* file of its batch, does not report the completion, and does not clear
\* the flag while it is set and a worker started after it is alive.
C21_CancelledWorkerIsInert ==
    [][\A w \in Workers :
         cancelAt[w] # "none" =>
            /\ ~(wpc[w] = "b_check" /\ wpc'[w] = "b_status")
            /\ ~(wpc[w] = "w_ifproc" /\ wpc'[w] = "w_completed")
            /\ (/\ wpc[w] = "w_finally"
                /\ wpc'[w] = "done"
                /\ processing
                /\ \E v \in (w + 1)..nworkers : Alive(v)) => processing']_vars

\* C22 as claimed: with the workers scheduled fairly, every accepted job
\* reaches the end of its worker with the flag clear.
C22_AcceptedJobEnds ==
    \A w \in Workers :
        (wpc[w] = "w_start") ~> (wpc[w] = "done" /\ ~processing)

\* C22 amended: with the workers scheduled fairly, and every message box a
\* worker opens closed by the user at some time, every accepted job
\* reaches the end of its worker with the flag clear.
C22_AcceptedJobEndsOnceDismissed ==
    (\A w \in Workers : []<>~DialogOpen(w)) =>
        (\A w \in Workers :
            (wpc[w] = "w_start") ~> (wpc[w] = "done" /\ ~processing))

\* C22 witness: a job was accepted, its worker ended and the flag is
\* clear, and the next start is accepted.
C22_Witness ==
    /\ nworkers = 2
    /\ wpc[1] = "done"
    /\ wpc[2] = "w_start"
    /\ processing
    /\ status_var = StatusCompleted
============================================================================
